---- MODULE Spec2Model ----
(***************************************************************************)
(* A model of vtt-translate.py: the VTT parser, the batch translator, the  *)
(* VTT writer, the orchestrating main() and the Spinner with its rendering *)
(* loop thread.                                                            *)
(*                                                                         *)
(* Text is modelled character by character: a Python str is a sequence of  *)
(* one-character strings, "\n" being the newline.  The whitespace the      *)
(* model's alphabet holds is the blank and the newline.                    *)
(***************************************************************************)
EXTENDS Integers, Sequences, FiniteSets, TLC

(***************************************************************************)
(* Bounds of the model.                                                    *)
(***************************************************************************)
\* the largest number of cues of an input file of the pipeline
MaxCues == 12
\* the largest batch and the longest response (in lines) of BatchSpec
MaxBatchCues == 3
MaxLines == 3
\* the number of method calls the Spinner driver makes on its instance
MaxCalls == 4
\* the most blocks a document given to parse_vtt_file on its own has
MaxBlocks == 3
\* the most pieces the name of an input file is made of, before ".vtt"
MaxParts == 3

(***************************************************************************)
(* Program constants.                                                      *)
(***************************************************************************)
batch_size == 10

(***************************************************************************)
(* Python's str operations, as the code uses them.                         *)
(***************************************************************************)
Digits == {"0", "1", "2", "3", "4", "5", "6", "7", "8", "9"}
IsSpace(c) == c \in {" ", "\n"}
IsDigit(c) == c \in Digits

Max(S) == CHOOSE x \in S : \A y \in S : y <= x
Least(S) == CHOOSE x \in S : \A y \in S : x <= y

\* str.lstrip(), str.rstrip() and str.strip()
LStrip(s) ==
    LET keep == {k \in 1..Len(s) : ~IsSpace(s[k])}
    IN  IF keep = {} THEN <<>> ELSE SubSeq(s, Least(keep), Len(s))

RStrip(s) ==
    LET keep == {k \in 1..Len(s) : ~IsSpace(s[k])}
    IN  IF keep = {} THEN <<>> ELSE SubSeq(s, 1, Max(keep))

Strip(s) == RStrip(LStrip(s))

\* str.split(sep) for a one-character separator: always at least one piece
RECURSIVE Split(_, _)
Split(s, sep) ==
    LET at == {k \in 1..Len(s) : s[k] = sep}
    IN  IF at = {} THEN <<s>>
        ELSE <<SubSeq(s, 1, Least(at) - 1)>>
             \o Split(SubSeq(s, Least(at) + 1, Len(s)), sep)

\* sep.join(parts)
RECURSIVE Join(_, _)
Join(parts, sep) ==
    IF parts = <<>> THEN <<>>
    ELSE IF Len(parts) = 1 THEN parts[1]
    ELSE parts[1] \o <<sep>> \o Join(Tail(parts), sep)

\* s.startswith(p)
StartsWith(s, p) == Len(s) >= Len(p) /\ SubSeq(s, 1, Len(p)) = p

\* p in s
Contains(s, p) ==
    \E k \in 1..(Len(s) - Len(p) + 1) : SubSeq(s, k, k + Len(p) - 1) = p

\* s.endswith(p)
EndsWith(s, p) == Len(s) >= Len(p) /\ SubSeq(s, Len(s) - Len(p) + 1, Len(s)) = p

\* s.replace(old, ''): every occurrence of old goes, left to right
RECURSIVE Remove(_, _)
Remove(s, old) ==
    LET at == {k \in 1..(Len(s) - Len(old) + 1) : SubSeq(s, k, k + Len(old) - 1) = old}
    IN  IF at = {} THEN s
        ELSE SubSeq(s, 1, Least(at) - 1)
             \o Remove(SubSeq(s, Least(at) + Len(old), Len(s)), old)

\* pathlib's Path(name).stem, for a name without directories: the name up
\* to its last dot, unless that dot starts or ends the name
Stem(name) ==
    LET dots == {k \in 1..Len(name) : name[k] = "."}
    IN  IF dots = {} THEN name
        ELSE IF 1 < Max(dots) /\ Max(dots) < Len(name)
             THEN SubSeq(name, 1, Max(dots) - 1)
        ELSE name

Arrow == <<"-", "-", ">">>
WEBVTT == <<"W", "E", "B", "V", "T", "T">>

(***************************************************************************)
(* re.split(r'\n\s*\n', s).  A match starts at a newline and, \s* being    *)
(* greedy, ends at the last newline that only whitespace separates from    *)
(* it; matches are taken left to right and do not overlap.                 *)
(***************************************************************************)
MatchEnd(s, p) ==
    LET ends == {q \in (p + 1)..Len(s) :
                    s[q] = "\n" /\ \A k \in (p + 1)..(q - 1) : IsSpace(s[k])}
    IN  IF ends = {} THEN 0 ELSE Max(ends)

RECURSIVE ReSplitFrom(_, _)
ReSplitFrom(s, p) ==
    LET starts == {q \in p..Len(s) : s[q] = "\n" /\ MatchEnd(s, q) # 0}
    IN  IF starts = {} THEN <<SubSeq(s, p, Len(s))>>
        ELSE <<SubSeq(s, p, Least(starts) - 1)>>
             \o ReSplitFrom(s, MatchEnd(s, Least(starts)) + 1)

ReSplitBlank(s) == ReSplitFrom(s, 1)

(***************************************************************************)
(* parse_vtt_file, from the file's content on.                             *)
(***************************************************************************)
\* lines 225-241: the cue of one block, as a sequence of zero or one cue
BlockCueIdOfTwoLines(block) ==
    LET lines == Split(Strip(block), "\n")
    IN  IF Strip(block) = <<>> THEN <<>>
        ELSE IF Len(lines) < 2 THEN <<>>
        ELSE IF Contains(lines[1], Arrow)
             THEN << [timestamp |-> lines[1],
                      text |-> Join(Tail(lines), "\n")] >>
        ELSE IF Contains(lines[2], Arrow)
             THEN << [timestamp |-> lines[2],
                      text |-> Join(Tail(Tail(lines)), "\n")] >>
        ELSE <<>>
BlockCue(block) ==
    LET lines == Split(Strip(block), "\n")
    IN  IF Strip(block) = <<>> THEN <<>>
        ELSE IF Len(lines) < 2 THEN <<>>
        ELSE IF Contains(lines[1], Arrow)
             THEN << [timestamp |-> lines[1],
                      text |-> Join(Tail(lines), "\n")] >>
        ELSE IF Len(lines) >= 3 /\ Contains(lines[2], Arrow)
             THEN << [timestamp |-> lines[2],
                      text |-> Join(Tail(Tail(lines)), "\n")] >>
        ELSE <<>>

RECURSIVE BlockCues(_)
BlockCues(blocks) ==
    IF blocks = <<>> THEN <<>>
    ELSE BlockCue(Head(blocks)) \o BlockCues(Tail(blocks))

\* line 216
Blocks(content) == ReSplitBlank(Strip(content))

\* line 219
ParseHeader(content) ==
    LET blocks == Blocks(content)
    IN  IF StartsWith(blocks[1], WEBVTT) THEN blocks[1] ELSE WEBVTT

\* lines 218-243
ParseCues(content) ==
    LET blocks == Blocks(content)
    IN  BlockCues(IF StartsWith(blocks[1], WEBVTT) THEN Tail(blocks) ELSE blocks)

(***************************************************************************)
(* write_vtt_file: the text written to the output file.                    *)
(***************************************************************************)
RECURSIVE RenderCues(_)
RenderCues(subs) ==
    IF subs = <<>> THEN <<>>
    ELSE Head(subs).timestamp \o <<"\n">> \o Head(subs).text \o <<"\n", "\n">>
         \o RenderCues(Tail(subs))

write_vtt_file_one_newline(hdr, subs) == hdr \o <<"\n">> \o RenderCues(subs)
write_vtt_file(hdr, subs) == hdr \o <<"\n", "\n">> \o RenderCues(subs)

(***************************************************************************)
(* translate_text_batch.  The outcome of model.generate_content(prompt)    *)
(* together with response.text is a record: raises, or the text returned.  *)
(* The prompt reaches nothing but the remote service and is left out.      *)
(***************************************************************************)
\* what follows the leading digits of s
DropDigits(s) ==
    LET rest == {k \in 1..Len(s) : ~IsDigit(s[k])}
    IN  IF rest = {} THEN <<>> ELSE SubSeq(s, Least(rest), Len(s))

\* re.sub(r'^\d+\.\s*', '', s)
StripNumbering(s) ==
    LET d == DropDigits(s)
    IN  IF Len(d) < Len(s) /\ d # <<>> /\ Head(d) = "."
        THEN LStrip(Tail(d))
        ELSE s

\* line 271
CleanLineKeepNumbering(line) == Strip(line)
CleanLine(line) == StripNumbering(Strip(line))

\* lines 268-273
RECURSIVE CleanLines(_)
CleanLines(lines) ==
    IF lines = <<>> THEN <<>>
    ELSE LET cleaned == CleanLine(Head(lines))
         IN  (IF cleaned # <<>> THEN <<cleaned>> ELSE <<>>)
             \o CleanLines(Tail(lines))

\* s[:n]
Take(s, n) == SubSeq(s, 1, IF Len(s) < n THEN Len(s) ELSE n)

\* lines 265-275
cleaned_translations_keeps_empty(text, n) ==
    LET lines == Split(Strip(text), "\n")
    IN  Take([k \in 1..Len(lines) |-> CleanLine(lines[k])], n)
cleaned_translations(text, n) == Take(CleanLines(Split(Strip(text), "\n")), n)

\* lines 247-282: whether an exception leaves the function, and what it
\* returns otherwise
translate_text_batch_propagates(texts, outcome) ==
    IF outcome.raises THEN [raised |-> TRUE, value |-> <<>>]
    ELSE [raised |-> FALSE, value |-> cleaned_translations(outcome.text, Len(texts))]
translate_text_batch(texts, outcome) ==
    IF texts = <<>> THEN [raised |-> FALSE, value |-> <<>>]
    ELSE IF outcome.raises THEN [raised |-> FALSE, value |-> texts]
    ELSE [raised |-> FALSE, value |-> cleaned_translations(outcome.text, Len(texts))]

(***************************************************************************)
(* The state.                                                              *)
(***************************************************************************)
VARIABLES
    user_input,            \* what the operator types at the prompt of main()
    has_key,               \* whether GEMINI_API_KEY is set
    file_exists,           \* whether the input file exists
    input_file,            \* the input file (its content is FileContent)
    pc,                    \* the main thread's place in main()
    header,                \* main(): header
    subtitles,             \* main(): subtitles, the parsed cues
    i,                     \* translate_subtitles: the loop index i
    translated_texts,      \* translate_subtitles: translated_texts
    translated_subtitles,  \* translate_subtitles: translated_subtitles
    calls,                 \* the model.generate_content calls issued so far
    exit_status,           \* how the process ended, "running" until then
    output_file,           \* the output file
    spinners,              \* the Spinner instances created so far
    threads,               \* the threads created so far, each running _loop
    stack,                 \* the main thread's calls into Spinner methods
    term,                  \* the terminal behind the output stream
    ncalls                 \* the Spinner driver: method calls made so far

vars == <<user_input, has_key, file_exists, input_file, pc, header, subtitles, i,
          translated_texts, translated_subtitles, calls, exit_status,
          output_file, spinners, threads, stack, term, ncalls>>

mainVars == <<user_input, has_key, file_exists, input_file, pc, header,
              subtitles, i, translated_texts, translated_subtitles, calls,
              exit_status, output_file>>

(***************************************************************************)
(* Spinner.                                                                *)
(***************************************************************************)
\* _SPINNERS["dots"], line 88: the number of frames; i is kept modulo it
NFrames == 10

\* len(f"{frame} {self.text}")
LineLen(text) == IF text = "Translating" THEN 37 ELSE 36

\* __init__, lines 100-111
NewSpinner(text) ==
    [text |-> text, stop |-> FALSE, thread |-> 0, cursor_hidden |-> FALSE,
     render_lock |-> "free", last_len |-> 0]

\* the terminal: whether the cursor shows, the last thing written, and the
\* status lines written so far, each with the Spinner that wrote it
NoTerm == [cursor |-> TRUE, last |-> "none", lines |-> <<>>]

\* threading.Thread.is_alive() of thread t
IsAlive(t) == threads[t].pc # "dead"

\* the threads of Spinner s that are alive
AliveThreads(s) == {t \in 1..Len(threads) : threads[t].sp = s /\ IsAlive(t)}

\* _hide_cursor, lines 118-122: the Spinner and the terminal after it
hide_cursor(sp, t) ==
    IF ~sp.cursor_hidden
    THEN [sp |-> [sp EXCEPT !.cursor_hidden = TRUE],
          term |-> [t EXCEPT !.cursor = FALSE, !.last = "hide"]]
    ELSE [sp |-> sp, term |-> t]

\* _show_cursor, lines 124-128
show_cursor_forgets(sp, t) == [sp |-> sp, term |-> t]
show_cursor(sp, t) ==
    IF sp.cursor_hidden
    THEN [sp |-> [sp EXCEPT !.cursor_hidden = FALSE],
          term |-> [t EXCEPT !.cursor = TRUE, !.last = "show"]]
    ELSE [sp |-> sp, term |-> t]

\* line 158: start() returns at once
start_always(s) == FALSE
start_is_noop(s) ==
    IF spinners[s].thread = 0 THEN FALSE ELSE IsAlive(spinners[s].thread)

\* lines 167-168: join() has returned, or there is no thread to join
join_skipped(s) == TRUE
join_returns(s) ==
    IF spinners[s].thread = 0 THEN TRUE ELSE ~IsAlive(spinners[s].thread)

\* the frames of a call of a Spinner method, the innermost last
Frame(m, at, s) == [m |-> m, at |-> at, self |-> s]
CallFrames(m, s) ==
    CASE m = "start"   -> <<Frame("start", "body", s)>>
      [] m = "stop"    -> <<Frame("stop", "set", s)>>
      [] m = "succeed" -> <<Frame("succeed", "status", s), Frame("stop", "set", s)>>
      [] m = "fail"    -> <<Frame("fail", "status", s), Frame("stop", "set", s)>>

Top == stack[Len(stack)]
Pop == SubSeq(stack, 1, Len(stack) - 1)
At(m, at) == stack # <<>> /\ Top.m = m /\ Top.at = at
Goto(at) == [stack EXCEPT ![Len(stack)].at = at]

\* start, lines 157-163
Start ==
    /\ At("start", "body")
    /\ LET s == Top.self
       IN  IF start_is_noop(s)
           THEN UNCHANGED <<spinners, threads>>
           ELSE /\ threads' = Append(threads, [sp |-> s, pc |-> "hide", i |-> 0])
                /\ spinners' = [spinners EXCEPT ![s].stop = FALSE,
                                                ![s].thread = Len(threads) + 1]
    /\ stack' = Pop
    /\ UNCHANGED <<mainVars, term, ncalls>>

\* stop, line 166
StopSetForgets ==
    /\ At("stop", "set")
    /\ stack' = Goto("join")
    /\ UNCHANGED <<mainVars, spinners, threads, term, ncalls>>
StopSet ==
    /\ At("stop", "set")
    /\ spinners' = [spinners EXCEPT ![Top.self].stop = TRUE]
    /\ stack' = Goto("join")
    /\ UNCHANGED <<mainVars, threads, term, ncalls>>

\* stop, lines 167-168
StopJoin ==
    /\ At("stop", "join")
    /\ join_returns(Top.self)
    /\ stack' = Goto("lock")
    /\ UNCHANGED <<mainVars, spinners, threads, term, ncalls>>

\* stop, line 169: the lock is taken
StopLock ==
    /\ At("stop", "lock")
    /\ spinners[Top.self].render_lock = "free"
    /\ spinners' = [spinners EXCEPT ![Top.self].render_lock = "main"]
    /\ stack' = Goto("clear")
    /\ UNCHANGED <<mainVars, threads, term, ncalls>>

\* stop, line 170, and _clear_line, lines 136-140
StopClear ==
    /\ At("stop", "clear")
    /\ spinners' = [spinners EXCEPT ![Top.self].last_len = 0]
    /\ term' = [term EXCEPT !.last = "clear"]
    /\ stack' = Goto("unlock")
    /\ UNCHANGED <<mainVars, threads, ncalls>>

\* stop, line 169: the lock is released
StopUnlock ==
    /\ At("stop", "unlock")
    /\ spinners' = [spinners EXCEPT ![Top.self].render_lock = "free"]
    /\ stack' = Goto("show")
    /\ UNCHANGED <<mainVars, threads, term, ncalls>>

\* stop, line 171
StopShow ==
    /\ At("stop", "show")
    /\ LET r == show_cursor(spinners[Top.self], term)
       IN  /\ spinners' = [spinners EXCEPT ![Top.self] = r.sp]
           /\ term' = r.term
    /\ stack' = Pop
    /\ UNCHANGED <<mainVars, threads, ncalls>>

\* succeed, lines 175-176, and fail, lines 180-181: the status line
Status ==
    /\ stack # <<>>
    /\ Top.m \in {"succeed", "fail"}
    /\ Top.at = "status"
    /\ term' = [term EXCEPT !.last = Top.m,
                             !.lines = Append(@, [sp |-> Top.self, m |-> Top.m])]
    /\ stack' = Pop
    /\ UNCHANGED <<mainVars, spinners, threads, ncalls>>

SpinnerCall == Start \/ StopSet \/ StopJoin \/ StopLock \/ StopClear
               \/ StopUnlock \/ StopShow \/ Status

(***************************************************************************)
(* _loop, lines 142-155, run by thread t.                                  *)
(***************************************************************************)
LoopAt(t, at) == threads[t].pc = at
LoopGoto(t, at) == threads' = [threads EXCEPT ![t].pc = at]

\* line 144
LoopHide(t) ==
    /\ LoopAt(t, "hide")
    /\ LET r == hide_cursor(spinners[threads[t].sp], term)
       IN  /\ spinners' = [spinners EXCEPT ![threads[t].sp] = r.sp]
           /\ term' = r.term
    /\ LoopGoto(t, "check")
    /\ UNCHANGED <<mainVars, stack, ncalls>>

\* line 145: the loop ends, and the thread with it, once _stop is set
LoopCheck(t) ==
    /\ LoopAt(t, "check")
    /\ threads' = [threads EXCEPT ![t] =
                      IF spinners[threads[t].sp].stop
                      THEN [@ EXCEPT !.pc = "dead", !.i = 0]
                      ELSE [@ EXCEPT !.pc = "lock"]]
    /\ UNCHANGED <<mainVars, spinners, stack, term, ncalls>>

\* line 148: the lock is taken
LoopLock(t) ==
    /\ LoopAt(t, "lock")
    /\ spinners[threads[t].sp].render_lock = "free"
    /\ spinners' = [spinners EXCEPT ![threads[t].sp].render_lock = "loop"]
    /\ LoopGoto(t, "render")
    /\ UNCHANGED <<mainVars, stack, term, ncalls>>

\* line 149, and _render, lines 130-134
LoopRender(t) ==
    /\ LoopAt(t, "render")
    /\ spinners' = [spinners EXCEPT
                       ![threads[t].sp].last_len = LineLen(spinners[threads[t].sp].text)]
    /\ term' = [term EXCEPT !.last = "frame"]
    /\ LoopGoto(t, "unlock")
    /\ UNCHANGED <<mainVars, stack, ncalls>>

\* lines 148-150: the lock is released, i += 1
LoopUnlock(t) ==
    /\ LoopAt(t, "unlock")
    /\ spinners' = [spinners EXCEPT ![threads[t].sp].render_lock = "free"]
    /\ threads' = [threads EXCEPT ![t].pc = "sleep",
                                  ![t].i = (@ + 1) % NFrames]
    /\ UNCHANGED <<mainVars, stack, term, ncalls>>

\* lines 151-155: the interval passes, or _stop is seen set
LoopSleep(t) ==
    /\ LoopAt(t, "sleep")
    /\ LoopGoto(t, "check")
    /\ UNCHANGED <<mainVars, spinners, stack, term, ncalls>>

Loop == \E t \in 1..Len(threads) :
            \/ LoopHide(t) \/ LoopCheck(t) \/ LoopLock(t)
            \/ LoopRender(t) \/ LoopUnlock(t) \/ LoopSleep(t)

(***************************************************************************)
(* The input files and the responses of the remote service the pipeline is *)
(* run on.                                                                 *)
(***************************************************************************)
Letters == <<"a", "b", "c", "d", "e", "f", "g", "h", "i", "j", "k", "l", "m",
             "n", "o", "p", "q", "r", "s", "t", "u", "v", "w", "x", "y", "z">>
DigitOf == <<"1", "2", "3", "4", "5", "6", "7", "8", "9">>

\* str(j) for 0 < j < 100
Dec(j) == IF j < 10 THEN <<DigitOf[j]>>
          ELSE <<DigitOf[j \div 10]>> \o (IF j % 10 = 0 THEN <<"0">> ELSE <<DigitOf[j % 10]>>)

\* cue k of a file: plain (style 1), or with a cue identifier, a timestamp
\* that ends in a blank, two lines of text and a blank line of whitespace
CueBlock(k, style) ==
    IF style = 1
    THEN <<Letters[k]>> \o Arrow \o <<"\n", "e", Letters[k], "\n", "\n">>
    ELSE Dec(k) \o <<"\n", Letters[k]>> \o Arrow
         \o <<" ", "\n", "e", Letters[k], "\n", "f", "\n", " ", "\n">>

RECURSIVE CueBlocks(_, _, _)
CueBlocks(k, n, style) ==
    IF k > n THEN <<>> ELSE CueBlock(k, style) \o CueBlocks(k + 1, n, style)

\* the blocks the documents parse_vtt_file is run on by itself are made of,
\* each a sequence of lines: headers, cues that start with their timestamp,
\* cues with an identifier (one with an indented timestamp), and blocks that
\* are no cue
BlockPool ==
    { <<WEBVTT>>,
      <<WEBVTT \o <<" ", "x">>, <<"h">> \o Arrow, <<"i">> >>,
      <<<<"a">> \o Arrow, <<"p">> >>,
      <<<<"b">> \o Arrow \o <<" ">>, <<"q", " ">>, <<" ", "r">> >>,
      <<<<"1">>, <<"c">> \o Arrow, <<"s">> >>,
      <<<<"2">>, <<" ", "d">> \o Arrow, <<"t">>, <<"u">> >>,
      <<<<"3">>, <<"e">> \o Arrow>>,
      <<<<"f">> \o Arrow>>,
      <<<<"v">>, <<"w">>, <<"g">> \o Arrow>> }

\* the documents: up to MaxBlocks blocks, laid out tightly (layout 1) or
\* with whitespace around the document and in the blank lines (layout 2)
Docs == [blocks : UNION {[1..n -> BlockPool] : n \in 0..MaxBlocks},
         layout : {1, 2}]

RECURSIVE JoinBlocks(_, _)
JoinBlocks(bs, sep) ==
    IF bs = <<>> THEN <<>>
    ELSE IF Len(bs) = 1 THEN Join(bs[1], "\n")
    ELSE Join(bs[1], "\n") \o sep \o JoinBlocks(Tail(bs), sep)

DocText(d) ==
    IF d.layout = 1 THEN JoinBlocks(d.blocks, <<"\n", "\n">>) \o <<"\n">>
    ELSE <<" ", "\n">> \o JoinBlocks(d.blocks, <<"\n", " ", "\n", "\n", " ">>)
         \o <<"\n", "\n", " ">>

\* a file of n cues: with the WEBVTT header (style 1), or without a header
\* and starting with a malformed block (style 2); or one of Docs (style 0)
FileContent(f) ==
    IF f.style = 0 THEN DocText(f.doc)
    ELSE (IF f.style = 1 THEN WEBVTT \o <<"\n", "\n">> ELSE <<"o", "\n", "\n">>)
         \o CueBlocks(1, f.n, f.style)

Files == [n : 0..MaxCues, style : {1, 2}]

DashEn == <<"-", "e", "n">>
DotVtt == <<".", "v", "t", "t">>
\* main, line 341
default_file == <<"s", "u", "b", "t", "i", "t", "l", "e", "s">> \o DashEn \o DotVtt

\* the pieces the names of input files are made of, and the names
NameParts == { <<"a">>, DashEn, <<"-">>, <<"e", "n">>, <<".">> }

RECURSIVE Concat(_)
Concat(parts) == IF parts = <<>> THEN <<>> ELSE parts[1] \o Concat(Tail(parts))

Names == {Concat(ps) \o DotVtt : ps \in UNION {[1..n -> NameParts] : n \in 1..MaxParts}}

\* the path of input file f: the default file (style 1), lecture.vtt
\* (style 2), or one of Names (style 3)
FileName(f) ==
    IF f.style = 3 THEN f.name
    ELSE IF f.style = 1 THEN default_file
    ELSE <<"l", "e", "c", "t", "u", "r", "e">> \o DotVtt

Translation(j) == <<"k", Letters[j]>>
Numbered(j) == Dec(j) \o <<".", " ">> \o Translation(j)

Raises == [raises |-> TRUE, text |-> <<>>]
Returns(text) == [raises |-> FALSE, text |-> text]
Pending == [raises |-> FALSE, text |-> <<"?">>]

\* what the service may answer to a batch of n texts: it raises; n numbered
\* lines; n - 1 bare lines; n + 1 numbered lines after a blank line; blanks
Responses(n) ==
    { Raises,
      Returns(Join([j \in 1..n |-> Numbered(j)], "\n")),
      Returns(Join([j \in 1..(n - 1) |-> Translation(j)], "\n") \o <<"\n">>),
      Returns(<<"\n">> \o Join([j \in 1..(n + 1) |-> Numbered(j)], "\n")),
      Returns(<<" ", "\n">>) }

(***************************************************************************)
(* translate_subtitles, the parts the loop is made of.                     *)
(***************************************************************************)
Min(a, b) == IF a < b THEN a ELSE b

\* line 297: subtitles[i:i + batch_size]
BatchOverlapping(subs, k) == SubSeq(subs, k + 1, Min(k + batch_size + 1, Len(subs)))
Batch(subs, k) == SubSeq(subs, k + 1, Min(k + batch_size, Len(subs)))

\* line 298
Texts(batch) == [j \in 1..Len(batch) |-> batch[j].text]

\* lines 312-315
TranslatedSubStripped(sub, tt, j) ==
    [timestamp |-> Strip(sub.timestamp),
     text |-> IF j <= Len(tt) THEN tt[j] ELSE sub.text]
TranslatedSubNoFallback(sub, tt, j) ==
    [timestamp |-> sub.timestamp,
     text |-> IF j <= Len(tt) THEN tt[j] ELSE <<>>]
TranslatedSub(sub, tt, j) ==
    [timestamp |-> sub.timestamp,
     text |-> IF j <= Len(tt) THEN tt[j] ELSE sub.text]

\* lines 311-316: what one batch appends to translated_subtitles
AlignBatchByTexts(batch, tt) ==
    [j \in 1..Min(Len(batch), Len(tt)) |-> TranslatedSub(batch[j], tt, j)]
AlignBatch(batch, tt) ==
    [j \in 1..Len(batch) |-> TranslatedSub(batch[j], tt, j)]

(***************************************************************************)
(* main() and translate_subtitles.                                         *)
(***************************************************************************)
NoFile == [written |-> FALSE, text |-> <<>>, name |-> <<>>]

\* main, lines 370-371
output_name(input_name) ==
    Remove(Stem(input_name), DashEn) \o <<"-", "k", "o">> \o DotVtt

Exit(status) ==
    /\ exit_status' = status
    /\ pc' = "exited"

\* load_environment, line 199
key_missing(k) == ~k

\* main, line 360
no_subtitles_ignored(subs) == FALSE
no_subtitles(subs) == subs = <<>>

\* main, lines 342-347
Prompt ==
    /\ pc = "prompt"
    /\ IF user_input = "exit" THEN Exit("exit0")
       ELSE pc' = "env" /\ UNCHANGED exit_status
    /\ UNCHANGED <<user_input, has_key, file_exists, input_file, header,
                   subtitles, i, translated_texts, translated_subtitles, calls,
                   output_file, spinners, threads, stack, term, ncalls>>

\* main, line 351, and load_environment, lines 198-204
LoadEnvironment ==
    /\ pc = "env"
    /\ IF key_missing(has_key) THEN Exit("exit1")
       ELSE pc' = "parse" /\ UNCHANGED exit_status
    /\ UNCHANGED <<user_input, has_key, file_exists, input_file, header,
                   subtitles, i, translated_texts, translated_subtitles, calls,
                   output_file, spinners, threads, stack, term, ncalls>>

\* main, line 357, and parse_vtt_file, lines 208-243
Parse ==
    /\ pc = "parse"
    /\ IF ~file_exists
       THEN Exit("exit1") /\ UNCHANGED <<header, subtitles>>
       ELSE /\ header' = ParseHeader(FileContent(input_file))
            /\ subtitles' = ParseCues(FileContent(input_file))
            /\ pc' = "check"
            /\ UNCHANGED exit_status
    /\ UNCHANGED <<user_input, has_key, file_exists, input_file, i,
                   translated_texts, translated_subtitles, calls, output_file,
                   spinners, threads, stack, term, ncalls>>

\* main, lines 360-366, and translate_subtitles, lines 286-294
Check ==
    /\ pc = "check"
    /\ IF no_subtitles(subtitles)
       THEN Exit("exit1") /\ UNCHANGED <<i, translated_subtitles>>
       ELSE /\ i' = 0
            /\ translated_subtitles' = <<>>
            /\ pc' = "loop"
            /\ UNCHANGED exit_status
    /\ UNCHANGED <<user_input, has_key, file_exists, input_file, header,
                   subtitles, translated_texts, calls, output_file, spinners,
                   threads, stack, term, ncalls>>

\* translate_subtitles, lines 296-303: the next batch's Spinner is made and
\* start() called, or the loop has ended
LoopHead ==
    /\ pc = "loop"
    /\ stack = <<>>
    /\ IF i < Len(subtitles)
       THEN /\ spinners' = Append(spinners, NewSpinner("Batch"))
            /\ stack' = CallFrames("start", Len(spinners) + 1)
            /\ pc' = "batch"
       ELSE /\ pc' = "write"
            /\ UNCHANGED <<spinners, stack>>
    /\ UNCHANGED <<user_input, has_key, file_exists, input_file, header,
                   subtitles, i, translated_texts, translated_subtitles, calls,
                   exit_status, output_file, threads, term, ncalls>>

\* translate_text_batch, lines 247-264: the label is set and the call issued
IssueCall ==
    /\ pc = "batch"
    /\ stack = <<>>
    /\ spinners' = [spinners EXCEPT ![Len(spinners)].text = "Translating"]
    /\ calls' = Append(calls, [from |-> i, n |-> Len(Batch(subtitles, i)),
                               outcome |-> Pending])
    /\ pc' = "in_flight"
    /\ UNCHANGED <<user_input, has_key, file_exists, input_file, header,
                   subtitles, i, translated_texts, translated_subtitles,
                   exit_status, output_file, threads, stack, term, ncalls>>

\* translate_text_batch, lines 264-282: the call resolves; the function
\* returns, after spinner.fail() when the call raised
Resolve ==
    /\ pc = "in_flight"
    /\ \E o \in Responses(Len(Batch(subtitles, i))) :
          LET r == translate_text_batch(Texts(Batch(subtitles, i)), o)
          IN  /\ calls' = [calls EXCEPT ![Len(calls)].outcome = o]
              /\ translated_texts' = r.value
              /\ pc' = IF r.raised THEN "raised" ELSE "returned"
              /\ stack' = IF o.raises /\ ~r.raised
                          THEN CallFrames("fail", Len(spinners))
                          ELSE <<>>
    /\ UNCHANGED <<user_input, has_key, file_exists, input_file, header,
                   subtitles, i, translated_subtitles, exit_status,
                   output_file, spinners, threads, term, ncalls>>

\* translate_subtitles, lines 304-309
BatchDoneNoStatus ==
    /\ pc \in {"returned", "raised"}
    /\ stack = <<>>
    /\ pc' = IF pc = "raised" THEN "unwind" ELSE "append"
    /\ UNCHANGED <<user_input, has_key, file_exists, input_file, header,
                   subtitles, i, translated_texts, translated_subtitles, calls,
                   exit_status, output_file, spinners, threads, stack, term,
                   ncalls>>
BatchDone ==
    /\ pc \in {"returned", "raised"}
    /\ stack = <<>>
    /\ IF pc = "raised"
       THEN /\ stack' = CallFrames("fail", Len(spinners))
            /\ pc' = "unwind"
       ELSE /\ stack' = CallFrames("succeed", Len(spinners))
            /\ pc' = "append"
    /\ UNCHANGED <<user_input, has_key, file_exists, input_file, header,
                   subtitles, i, translated_texts, translated_subtitles, calls,
                   exit_status, output_file, spinners, threads, term, ncalls>>

\* translate_subtitles, lines 311-316 and the step of line 296; or the
\* exception of line 309 leaves main()
AppendBatch ==
    /\ pc \in {"append", "unwind"}
    /\ stack = <<>>
    /\ IF pc = "unwind"
       THEN Exit("exception") /\ UNCHANGED <<i, translated_subtitles>>
       ELSE /\ translated_subtitles' =
                   translated_subtitles \o AlignBatch(Batch(subtitles, i), translated_texts)
            /\ i' = i + batch_size
            /\ pc' = "loop"
            /\ UNCHANGED exit_status
    /\ UNCHANGED <<user_input, has_key, file_exists, input_file, header,
                   subtitles, translated_texts, calls, output_file, spinners,
                   threads, stack, term, ncalls>>

\* main, lines 368-377, and write_vtt_file, lines 322-329
Write ==
    /\ pc = "write"
    /\ output_file' = [written |-> TRUE,
                       text |-> write_vtt_file(header, translated_subtitles),
                       name |-> output_name(FileName(input_file))]
    /\ Exit("exit0")
    /\ UNCHANGED <<user_input, has_key, file_exists, input_file, header,
                   subtitles, i, translated_texts, translated_subtitles, calls,
                   spinners, threads, stack, term, ncalls>>

Main == Prompt \/ LoadEnvironment \/ Parse \/ Check \/ LoopHead \/ IssueCall
        \/ Resolve \/ BatchDone \/ AppendBatch \/ Write

(***************************************************************************)
(* The pipeline: one run of main(), with the rendering loops of the        *)
(* Spinners it creates.                                                    *)
(***************************************************************************)
Init ==
    /\ user_input \in {"exit", "file"}
    /\ has_key \in BOOLEAN
    /\ file_exists \in BOOLEAN
    /\ input_file \in Files
    /\ pc = "prompt"
    /\ header = <<>>
    /\ subtitles = <<>>
    /\ i = 0
    /\ translated_texts = <<>>
    /\ translated_subtitles = <<>>
    /\ calls = <<>>
    /\ exit_status = "running"
    /\ output_file = NoFile
    /\ spinners = <<>>
    /\ threads = <<>>
    /\ stack = <<>>
    /\ term = NoTerm
    /\ ncalls = 0

Next == Main \/ SpinnerCall \/ Loop

Spec == Init /\ [][Next]_vars

\* main() from line 360 on, once the file is parsed
Translate == Check \/ LoopHead \/ IssueCall \/ Resolve \/ BatchDone
             \/ AppendBatch \/ Write

\* the pipeline under fair scheduling: once the file is parsed the main
\* thread goes on while it can, every call issued resolves, and a loop
\* thread that can take a step is not left waiting forever
FairSpec == Spec /\ WF_vars(Translate) /\ WF_vars(SpinnerCall) /\ WF_vars(Loop)

(***************************************************************************)
(* A client of one Spinner: it calls start(), stop(), succeed() and        *)
(* fail() in any order, and enters and leaves the Spinner as a scope, the  *)
(* wrapped operation raising or not.  pc names the call made last.         *)
(***************************************************************************)
DriverCalls == {"start", "stop", "succeed", "fail"}
DriverPcs == {"driver"} \cup DriverCalls \cup {"enter", "exit_ok", "exit_exc"}

DriverIdle ==
    /\ pc \in DriverPcs
    /\ stack = <<>>
    /\ ncalls < MaxCalls

DriverEffect(name, m) ==
    /\ stack' = CallFrames(m, 1)
    /\ pc' = name
    /\ ncalls' = ncalls + 1
    /\ UNCHANGED <<user_input, has_key, file_exists, input_file, header,
                   subtitles, i, translated_texts, translated_subtitles, calls,
                   exit_status, output_file, spinners, threads, term>>

\* a call of start(), stop(), succeed() or fail()
DriverCall ==
    /\ DriverIdle
    /\ \E m \in DriverCalls : DriverEffect(m, m)

\* __enter__, lines 183-184
DriverEnter ==
    /\ DriverIdle
    /\ DriverEffect("enter", "start")

\* __exit__, lines 186-190
DriverExit ==
    /\ DriverIdle
    /\ \E raised \in BOOLEAN :
          IF raised THEN DriverEffect("exit_exc", "fail")
          ELSE DriverEffect("exit_ok", "succeed")

Driver == DriverCall \/ DriverEnter \/ DriverExit

InitSpinner ==
    /\ user_input = "file"
    /\ has_key = TRUE
    /\ file_exists = TRUE
    /\ input_file = [n |-> 0, style |-> 1]
    /\ pc = "driver"
    /\ header = <<>>
    /\ subtitles = <<>>
    /\ i = 0
    /\ translated_texts = <<>>
    /\ translated_subtitles = <<>>
    /\ calls = <<>>
    /\ exit_status = "running"
    /\ output_file = NoFile
    /\ spinners = <<NewSpinner("Batch")>>
    /\ threads = <<>>
    /\ stack = <<>>
    /\ term = NoTerm
    /\ ncalls = 0

NextSpinner == Driver \/ SpinnerCall \/ Loop

SpinnerSpec == InitSpinner /\ [][NextSpinner]_vars

\* the client's Spinner under fair scheduling: a loop thread that can take
\* a step, and a method the main thread is in, are not left waiting forever
FairSpinnerSpec == SpinnerSpec /\ WF_vars(SpinnerCall) /\ WF_vars(Loop)

\* the Spinner in both its uses: driven by a client, and by the pipeline
NextUse == Main \/ Driver \/ SpinnerCall \/ Loop

SpinnerUseSpec == (Init \/ InitSpinner) /\ [][NextUse]_vars

(***************************************************************************)
(* One batch on its own: translate_text_batch and lines 311-316 applied to *)
(* a batch of cues and a response made of lines of LinePool.               *)
(***************************************************************************)
LinePool ==
    { <<>>, <<" ">>, <<"1", ".", " ", "A">>, <<"2", ".", " ", "B">>,
      <<"3", ".", " ", "C">>, <<"A", " ">>, <<" ", "4", ".", "D">>,
      <<"5", ".">> }

BatchCue(k) == [timestamp |-> <<Letters[k]>> \o Arrow, text |-> <<"e", Letters[k]>>]

LineSeqs == UNION {[1..n -> LinePool] : n \in 0..MaxLines}

BatchResponses == {Raises} \cup {Returns(Join(ls, "\n")) : ls \in LineSeqs}

InitBatch ==
    /\ user_input = "file"
    /\ has_key = TRUE
    /\ file_exists = TRUE
    /\ input_file = [n |-> 0, style |-> 1]
    /\ pc = "batch_in"
    /\ header = WEBVTT
    /\ \E n \in 1..MaxBatchCues : subtitles = [k \in 1..n |-> BatchCue(k)]
    /\ i = 0
    /\ translated_texts = <<>>
    /\ translated_subtitles = <<>>
    /\ \E o \in BatchResponses :
          calls = <<[from |-> 0, n |-> Len(subtitles), outcome |-> o]>>
    /\ exit_status = "running"
    /\ output_file = NoFile
    /\ spinners = <<>>
    /\ threads = <<>>
    /\ stack = <<>>
    /\ term = NoTerm
    /\ ncalls = 0

\* translate_text_batch, lines 264-282, and translate_subtitles, 311-316
ApplyBatch ==
    /\ pc = "batch_in"
    /\ LET r == translate_text_batch(Texts(Batch(subtitles, i)), calls[1].outcome)
       IN  /\ translated_texts' = r.value
           /\ translated_subtitles' = AlignBatch(Batch(subtitles, i), r.value)
    /\ pc' = "batch_out"
    /\ UNCHANGED <<user_input, has_key, file_exists, input_file, header,
                   subtitles, i, calls, exit_status, output_file, spinners,
                   threads, stack, term, ncalls>>

BatchSpec == InitBatch /\ [][ApplyBatch]_vars

(***************************************************************************)
(* parse_vtt_file and write_vtt_file on their own: a document of Docs is   *)
(* parsed, and the header and cues parsed are written out again.           *)
(***************************************************************************)
InitParse ==
    /\ user_input = "file"
    /\ has_key = TRUE
    /\ file_exists = TRUE
    /\ \E d \in Docs : input_file = [n |-> 0, style |-> 0, doc |-> d]
    /\ pc = "parse_in"
    /\ header = <<>>
    /\ subtitles = <<>>
    /\ i = 0
    /\ translated_texts = <<>>
    /\ translated_subtitles = <<>>
    /\ calls = <<>>
    /\ exit_status = "running"
    /\ output_file = NoFile
    /\ spinners = <<>>
    /\ threads = <<>>
    /\ stack = <<>>
    /\ term = NoTerm
    /\ ncalls = 0

\* parse_vtt_file, lines 212-243
ParseDoc ==
    /\ pc = "parse_in"
    /\ header' = ParseHeader(FileContent(input_file))
    /\ subtitles' = ParseCues(FileContent(input_file))
    /\ pc' = "parse_out"
    /\ UNCHANGED <<user_input, has_key, file_exists, input_file, i,
                   translated_texts, translated_subtitles, calls, exit_status,
                   output_file, spinners, threads, stack, term, ncalls>>

\* write_vtt_file, lines 322-327, on what parse_vtt_file returned
WriteParsed ==
    /\ pc = "parse_out"
    /\ output_file' = [written |-> TRUE,
                       text |-> write_vtt_file(header, subtitles),
                       name |-> <<>>]
    /\ pc' = "rewritten"
    /\ UNCHANGED <<user_input, has_key, file_exists, input_file, header,
                   subtitles, i, translated_texts, translated_subtitles, calls,
                   exit_status, spinners, threads, stack, term, ncalls>>

NextParse == ParseDoc \/ WriteParsed

ParseSpec == InitParse /\ [][NextParse]_vars

(***************************************************************************)
(* The output file's name on its own: main(), lines 370-371, on the names  *)
(* of Names.                                                               *)
(***************************************************************************)
InitName ==
    /\ user_input = "file"
    /\ has_key = TRUE
    /\ file_exists = TRUE
    /\ \E nm \in Names : input_file = [n |-> 0, style |-> 3, name |-> nm]
    /\ pc = "name_in"
    /\ header = <<>>
    /\ subtitles = <<>>
    /\ i = 0
    /\ translated_texts = <<>>
    /\ translated_subtitles = <<>>
    /\ calls = <<>>
    /\ exit_status = "running"
    /\ output_file = NoFile
    /\ spinners = <<>>
    /\ threads = <<>>
    /\ stack = <<>>
    /\ term = NoTerm
    /\ ncalls = 0

\* main, lines 370-371
NameOutput ==
    /\ pc = "name_in"
    /\ output_file' = [NoFile EXCEPT !.name = output_name(FileName(input_file))]
    /\ pc' = "name_out"
    /\ UNCHANGED <<user_input, has_key, file_exists, input_file, header,
                   subtitles, i, translated_texts, translated_subtitles, calls,
                   exit_status, spinners, threads, stack, term, ncalls>>

NameSpec == InitName /\ [][NameOutput]_vars

\* the cues in both their sources: the pipeline, and the parser on Docs
NextCues == Main \/ SpinnerCall \/ Loop \/ ParseDoc \/ WriteParsed

CuesSpec == (Init \/ InitParse) /\ [][NextCues]_vars

(***************************************************************************)
(* The properties.                                                         *)
(***************************************************************************)
\* the run has written the output file and ended
Written == output_file.written

\* the cues the output file holds, as parse_vtt_file reads them back
WrittenCues == ParseCues(output_file.text)

\* the calls that have resolved and whose batch has been appended
Appended(q) == calls[q].outcome # Pending /\ calls[q].from + calls[q].n <= Len(translated_subtitles)

\* C1: whatever each translation call did, translated_subtitles grows by
\* exactly the cues of each batch, in order, and the file written holds as
\* many cues as the input, cue k of the file being input cue k.
C1_CountAndOrderKept ==
    /\ Len(translated_subtitles) = Min(i, Len(subtitles))
    /\ Written =>
          /\ Len(translated_subtitles) = Len(subtitles)
          /\ Len(WrittenCues) = Len(subtitles)
          /\ \A k \in 1..Len(subtitles) :
                WrittenCues[k].timestamp = subtitles[k].timestamp

C1_Witness ==
    /\ Written
    /\ Len(subtitles) > batch_size
    /\ calls[1].outcome.raises
    /\ Len(cleaned_translations(calls[2].outcome.text, calls[2].n)) > calls[2].n - 1
    /\ input_file.style = 2

\* C2: every cue of translated_subtitles has the timestamp of the input cue
\* at the same index, whether its batch returned in full, short or long, or
\* raised.
C2_TimestampsUntouched ==
    \A k \in 1..Len(translated_subtitles) :
       /\ k <= Len(subtitles)
       /\ translated_subtitles[k].timestamp = subtitles[k].timestamp

C2_Witness ==
    /\ pc = "loop"
    /\ Len(calls) = 2
    /\ Len(translated_subtitles) = Len(subtitles)
    /\ calls[1].outcome.raises
    /\ ~calls[2].outcome.raises
    /\ translated_subtitles[1].timestamp = <<"a", "-", "-", ">", " ">>

\* C3: a call that raises leaves every cue of its batch with its original
\* text (looked at each time a batch has been appended and at the end); the exception leaves neither translate_text_batch nor the run; the
\* batches after it are processed (every cue is covered by a resolved call
\* when the file is written); and the texts of every other batch are what
\* that batch's own response alone makes them.
C3_FailedBatchFallsBack ==
    /\ exit_status # "exception"
    /\ pc \notin {"raised", "unwind"}
    /\ \A q \in 1..Len(calls) :
          (pc \in {"loop", "write", "exited"} /\ Appended(q)) =>
             \A j \in 1..calls[q].n :
                LET k == calls[q].from + j
                    own == cleaned_translations(calls[q].outcome.text, calls[q].n)
                IN  translated_subtitles[k].text =
                       IF calls[q].outcome.raises THEN subtitles[k].text
                       ELSE IF j <= Len(own) THEN own[j]
                       ELSE subtitles[k].text
    /\ Written =>
          \A k \in 1..Len(subtitles) :
             \E q \in 1..Len(calls) :
                /\ Appended(q)
                /\ calls[q].from < k
                /\ k <= calls[q].from + calls[q].n

C3_Witness ==
    /\ Written
    /\ Len(calls) = 2
    /\ calls[1].outcome.raises
    /\ ~calls[2].outcome.raises
    /\ translated_subtitles[1].text = subtitles[1].text
    /\ translated_subtitles[batch_size + 1].text = Translation(1)

\* the least m with m * d >= n
CeilDiv(n, d) == Least({m \in 0..n : m * d >= n})

\* C4: the q-th call covers the cues from (q - 1) * 10 on, at least one and
\* at most 10 of them and all that are left when fewer; no call is issued
\* twice for a batch; and when the file is written ceil(N / 10) calls have
\* been issued, which cover every cue once.
C4_BatchesPartitionCues ==
    /\ \A q \in 1..Len(calls) :
          /\ calls[q].from = (q - 1) * batch_size
          /\ calls[q].n = Min(batch_size, Len(subtitles) - calls[q].from)
          /\ calls[q].n >= 1
    /\ Len(calls) <= CeilDiv(Len(subtitles), batch_size)
    /\ Written =>
          /\ Len(calls) = CeilDiv(Len(subtitles), batch_size)
          /\ \A k \in 1..Len(subtitles) :
                Cardinality({q \in 1..Len(calls) :
                    calls[q].from < k /\ k <= calls[q].from + calls[q].n}) = 1

C4_Witness ==
    /\ Written
    /\ Len(subtitles) = batch_size + 2
    /\ Len(calls) = 2
    /\ calls[1].outcome.raises
    /\ calls[2].n = 2

(***************************************************************************)
(* The response alignment, stated without the code's own cleaning: c is    *)
(* what is left of line t when a prefix of digits, a period and whitespace *)
(* is taken off it.                                                        *)
(***************************************************************************)
IsNumbering(pre) ==
    \E d \in 1..(Len(pre) - 1) :
       /\ \A k \in 1..d : IsDigit(pre[k])
       /\ pre[d + 1] = "."
       /\ \A k \in (d + 2)..Len(pre) : IsSpace(pre[k])

\* the longest numbering prefix of t taken off, t itself when it has none
Unnumbered(t) ==
    LET cuts == {p \in 1..Len(t) : IsNumbering(SubSeq(t, 1, p))}
    IN  IF cuts = {} THEN t ELSE SubSeq(t, Max(cuts) + 1, Len(t))

NonEmpty(line) == line # <<>>

\* the lines of a response as C5 words them: split, unnumbered, the
\* empty ones dropped
LinesAsClaimed(text) ==
    LET lines == Split(text, "\n")
    IN  SelectSeq([k \in 1..Len(lines) |-> Unnumbered(lines[k])], NonEmpty)

\* the same with the response and each of its lines trimmed first
LinesTrimmed(text) ==
    LET lines == Split(Strip(text), "\n")
    IN  SelectSeq([k \in 1..Len(lines) |-> Unnumbered(Strip(lines[k]))], NonEmpty)

BatchOut == pc = "batch_out" /\ ~calls[1].outcome.raises

OutText(j) == translated_subtitles[j].text

\* C5 as stated: cue j of the batch receives the j-th of the response's
\* lines, each with its numbering prefix taken off and the empty ones
\* dropped.
C5_AsStated ==
    BatchOut =>
       \A j \in 1..Len(subtitles) :
          j <= Len(LinesAsClaimed(calls[1].outcome.text)) =>
             OutText(j) = LinesAsClaimed(calls[1].outcome.text)[j]

\* C5, amended: the response is trimmed and split into lines, each line is
\* trimmed, its numbering prefix taken off and the line dropped when empty;
\* cue j of the batch receives the j-th line left, for every j up to the
\* batch size; "1. A\n2. B\n3. C" gives three cues A, B, C.
C5_LinesMatchedByPosition ==
    BatchOut =>
       /\ \A j \in 1..Len(subtitles) :
             j <= Len(LinesTrimmed(calls[1].outcome.text)) =>
                OutText(j) = LinesTrimmed(calls[1].outcome.text)[j]
       /\ Len(translated_texts) <= Len(subtitles)
       /\ (/\ Len(subtitles) = 3
           /\ calls[1].outcome.text = <<"1", ".", " ", "A", "\n", "2", ".", " ", "B",
                                        "\n", "3", ".", " ", "C">>)
          => /\ OutText(1) = <<"A">>
             /\ OutText(2) = <<"B">>
             /\ OutText(3) = <<"C">>

C5_Witness ==
    /\ BatchOut
    /\ Len(subtitles) = 3
    /\ calls[1].outcome.text = <<"1", ".", " ", "A", "\n", "2", ".", " ", "B",
                                 "\n", "3", ".", " ", "C">>
    /\ OutText(3) = <<"C">>

\* C6: when the response leaves k lines, k less than the batch size, the
\* first k cues of the batch receive them in order and every later cue
\* keeps the text of the input cue at its own position.
C6_ShortResponseFallsBack ==
    BatchOut =>
       LET left == LinesTrimmed(calls[1].outcome.text)
       IN  Len(left) < Len(subtitles) =>
              \A j \in 1..Len(subtitles) :
                 OutText(j) = IF j <= Len(left) THEN left[j] ELSE subtitles[j].text

C6_Witness ==
    /\ BatchOut
    /\ Len(subtitles) = 3
    /\ Len(LinesTrimmed(calls[1].outcome.text)) = 2
    /\ OutText(1) = <<"A">>
    /\ OutText(3) = subtitles[3].text

\* C7: a run with a missing credential, a missing input file or a parse of
\* zero cues goes no further than the check that finds it, ends with exit
\* status 1, issues no translation call and writes no file; and without the
\* credential the input file is never read.
Fatal ==
    \/ ~has_key
    \/ ~file_exists
    \/ (pc \notin {"prompt", "env", "parse"} /\ subtitles = <<>>)

C7_FatalExitsEarly ==
    /\ (user_input # "exit" /\ Fatal) =>
          /\ pc \in {"prompt", "env", "parse", "check", "exited"}
          /\ pc = "exited" => exit_status = "exit1"
          /\ calls = <<>>
          /\ spinners = <<>>
          /\ ~Written
    /\ exit_status = "exit1" => (calls = <<>> /\ ~Written)
    /\ ~has_key => (header = <<>> /\ subtitles = <<>>)

C7_Witness ==
    /\ pc = "exited"
    /\ exit_status = "exit1"
    /\ has_key
    /\ file_exists
    /\ header = WEBVTT
    /\ subtitles = <<>>

(***************************************************************************)
(* The Spinner.                                                            *)
(***************************************************************************)
\* the main thread is inside stop() of Spinner s, waiting in join()
Joining(s) == At("stop", "join") /\ Top.self = s

StatusLines == {"succeed", "fail"}

\* C8: once stop() has set the stop signal, the main thread gets past the
\* join only when the Spinner's loop thread has ended: in every state where
\* the signal is set and the main thread is not waiting in join(), no loop
\* thread of that Spinner is alive; and no frame is written next after a
\* status line.
C8_StopJoinsLoop ==
    /\ [](\A s \in 1..Len(spinners) :
             (spinners[s].stop /\ ~Joining(s)) => AliveThreads(s) = {})
    /\ [][term.last \in StatusLines => term'.last # "frame"]_vars

C8_Witness ==
    /\ pc = "succeed"
    /\ stack = <<>>
    /\ Len(threads) = 1
    /\ ~IsAlive(1)
    /\ term.last = "succeed"
    /\ spinners[1].stop

\* succeed(), fail() or the scope exit has returned: for the client, the
\* call made last; in the pipeline, every place after a batch's fail() or
\* succeed()
Returned ==
    /\ stack = <<>>
    /\ \/ pc \in {"succeed", "fail", "exit_ok", "exit_exc"}
       \/ pc \in {"append", "loop", "write"}
       \/ (pc = "returned" /\ calls[Len(calls)].outcome.raises)
       \/ (pc = "exited" /\ spinners # <<>>)

\* C9: when succeed(), fail() or the scope exit returns no loop thread is
\* alive and the cursor is visible, in the client's use and after every
\* batch of the pipeline.
C9_NoThreadLeftCursorShown ==
    Returned =>
       /\ \A t \in 1..Len(threads) : ~IsAlive(t)
       /\ term.cursor
       /\ \A s \in 1..Len(spinners) : ~spinners[s].cursor_hidden

C9_Witness ==
    /\ pc = "exit_exc"
    /\ stack = <<>>
    /\ Len(threads) = 1
    /\ term.last = "fail"
    /\ term.cursor

\* C10: at most one loop thread of the Spinner is alive at any time, and a
\* start() made while one is alive creates no thread and leaves the Spinner,
\* the threads and the terminal as they were.
C10_OneLoopPerSpinner ==
    /\ [](\A s \in 1..Len(spinners) : Cardinality(AliveThreads(s)) <= 1)
    /\ [][(At("start", "body") /\ AliveThreads(Top.self) # {} /\ stack' # stack)
             => UNCHANGED <<spinners, threads, term>>]_vars

C10_Witness ==
    /\ pc = "start"
    /\ stack = <<>>
    /\ ncalls = 2
    /\ Len(threads) = 1
    /\ IsAlive(1)
    /\ term.last = "none"

(***************************************************************************)
(* The status lines of the batches.                                        *)
(***************************************************************************)
\* the status lines Spinner s has written, in order
StatusOf(s) ==
    LET own == SelectSeq(term.lines, LAMBDA l : l.sp = s)
    IN  [k \in 1..Len(own) |-> own[k].m]

\* C11: each batch ends with exactly one status line, "fail" if and only if
\* its call raised and "succeed" if and only if it did not; a Spinner that
\* has written a status line writes no second one.  (Batch q of the pipeline
\* has call q and Spinner q.)
C11_OneStatusPerBatch ==
    \A q \in 1..Len(calls) :
       /\ Len(StatusOf(q)) <= 1
       /\ Appended(q) =>
             StatusOf(q) = <<IF calls[q].outcome.raises THEN "fail" ELSE "succeed">>

(***************************************************************************)
(* The parser.                                                             *)
(***************************************************************************)
\* the first block of the document is its header
HeaderFirst(bs) == bs # <<>> /\ StartsWith(bs[1][1], WEBVTT)

\* the cue a block of the given lines yields, as the classification has it
ClassifiedCue(lines) ==
    IF Len(lines) < 2 THEN <<>>
    ELSE IF Contains(lines[1], Arrow)
         THEN << [timestamp |-> lines[1],
                  text |-> Join(SubSeq(lines, 2, Len(lines)), "\n")] >>
    ELSE IF Len(lines) >= 3 /\ Contains(lines[2], Arrow)
         THEN << [timestamp |-> lines[2],
                  text |-> Join(SubSeq(lines, 3, Len(lines)), "\n")] >>
    ELSE <<>>

RECURSIVE ClassifiedCues(_)
ClassifiedCues(bs) ==
    IF bs = <<>> THEN <<>>
    ELSE ClassifiedCue(bs[1]) \o ClassifiedCues(Tail(bs))

\* the document parse_vtt_file was run on, as blocks of lines
DocBlocks == input_file.doc.blocks

\* C12: the first block is the header, and no cue, exactly when it starts
\* with WEBVTT, and the header is WEBVTT otherwise; a block whose line 0
\* holds the arrow yields the cue of that timestamp and lines 1.. as text; a
\* block of three lines or more whose line 1 holds the arrow yields the cue
\* of line 1 and lines 2.., line 0 dropped; any other block, and any block of
\* fewer than two lines, yields none; the cues come in block order.
C12_BlocksClassified ==
    pc = "parse_out" =>
       /\ header = IF HeaderFirst(DocBlocks) THEN Join(DocBlocks[1], "\n")
                   ELSE WEBVTT
       /\ subtitles = IF HeaderFirst(DocBlocks)
                      THEN ClassifiedCues(Tail(DocBlocks))
                      ELSE ClassifiedCues(DocBlocks)

C12_Witness ==
    /\ pc = "parse_out"
    /\ input_file.doc.layout = 2
    /\ DocBlocks = << << <<"3">>, <<"e">> \o Arrow >>,
                      << <<"2">>, <<" ", "d">> \o Arrow, <<"t">>, <<"u">> >>,
                      << <<"a">> \o Arrow, <<"p">> >> >>
    /\ header = WEBVTT
    /\ subtitles = << [timestamp |-> <<" ", "d">> \o Arrow, text |-> <<"t", "\n", "u">>],
                      [timestamp |-> <<"a">> \o Arrow, text |-> <<"p">>] >>

\* a cue has a timestamp that holds the arrow and a text that is not empty
WellFormed(cue) == Contains(cue.timestamp, Arrow) /\ cue.text # <<>>

\* C13: every cue parse_vtt_file returns, and every cue of the translated
\* sequence the writer is given, whatever the calls did, has a timestamp
\* that contains the arrow and a text that is not empty.
C13_CuesWellFormed ==
    /\ \A k \in 1..Len(subtitles) : WellFormed(subtitles[k])
    /\ \A k \in 1..Len(translated_subtitles) : WellFormed(translated_subtitles[k])

C13_Witness ==
    /\ pc = "write"
    /\ Len(calls) = 2
    /\ calls[1].outcome.raises
    /\ calls[2].outcome = Returns(<<" ", "\n">>)
    /\ translated_texts = <<>>
    /\ Len(translated_subtitles) = Len(subtitles)
    /\ input_file.style = 2

(***************************************************************************)
(* The output file's name.                                                 *)
(***************************************************************************)
\* the base name of the input file, without its extension
BaseName == Stem(FileName(input_file))

\* C14: the output file's name is the input's base name, without its
\* extension, less a trailing "-en" when it ends in one and with nothing
\* else removed, followed by "-ko.vtt"; a base name that holds "-en" only
\* before its end is kept whole.
C14_OnlySuffixRemoved ==
    pc = "name_out" =>
       output_file.name =
          (IF EndsWith(BaseName, DashEn)
           THEN SubSeq(BaseName, 1, Len(BaseName) - 3)
           ELSE BaseName) \o <<"-", "k", "o">> \o DotVtt

(***************************************************************************)
(* The order of the batches.                                               *)
(***************************************************************************)
\* the calls in flight
InFlight == {q \in 1..Len(calls) : calls[q].outcome = Pending}

\* C15: at most one translation call is in flight at any time, and the call
\* of batch q + 1 is issued only after the call of batch q has resolved and
\* batch q's last status line is written: every earlier batch has a status
\* line, ending in its success line, and writes no further one.
C15_BatchesSequential ==
    /\ [](/\ Cardinality(InFlight) <= 1
          /\ InFlight # {} <=> pc = "in_flight"
          /\ \A q \in 1..(Len(calls) - 1) :
                /\ calls[q].outcome # Pending
                /\ StatusOf(q) # <<>>
                /\ StatusOf(q)[Len(StatusOf(q))] = "succeed")
    /\ [][\A q \in 1..(Len(calls) - 1) : StatusOf(q)' = StatusOf(q)]_vars

C15_Witness ==
    /\ pc = "in_flight"
    /\ Len(calls) = 2
    /\ calls[1].outcome = Raises
    /\ StatusOf(1) = <<"fail", "succeed">>
    /\ calls[2].outcome = Pending
    /\ StatusOf(2) = <<>>
    /\ IsAlive(2)

(***************************************************************************)
(* The rendering loops of the pipeline.                                    *)
(***************************************************************************)
\* the loop threads alive
Alive == {t \in 1..Len(threads) : IsAlive(t)}

\* the loop of the newest batch, and no other, is alive
OnlyBatchLoop ==
    /\ threads # <<>>
    /\ Alive = {Len(threads)}
    /\ threads[Len(threads)].sp = Len(spinners)

\* C16 as stated: while a call is in flight exactly one loop is alive, the
\* one started for that batch, and at every other moment of the run none is.
C16_AsStated ==
    /\ pc = "in_flight" => OnlyBatchLoop
    /\ pc # "in_flight" => Alive = {}

\* C16: two loops never coexist; while a call is in flight, and from the
\* return of the batch's start() to the stop() that follows the call,
\* exactly one loop is alive, the one started for that batch; during the
\* prompt, the parsing, between batches and during and after the writing
\* none is alive; a loop alive is always the newest batch's, with the main
\* thread between that batch's start() and the end of its first stop().
C16_OneLoopPerBatch ==
    /\ Cardinality(Alive) <= 1
    /\ pc = "in_flight" => OnlyBatchLoop
    /\ (pc = "batch" /\ stack = <<>>) => OnlyBatchLoop
    /\ (pc = "returned" /\ stack = <<>> /\ ~calls[Len(calls)].outcome.raises)
          => OnlyBatchLoop
    /\ pc \in {"prompt", "env", "parse", "check", "loop", "write", "exited"}
          => Alive = {}
    /\ Alive # {} =>
          /\ OnlyBatchLoop
          /\ pc \in {"batch", "in_flight", "returned", "append"}
          /\ StatusOf(Len(spinners)) = <<>>

C16_Witness ==
    /\ pc = "in_flight"
    /\ Len(calls) = 2
    /\ Len(threads) = 2
    /\ ~IsAlive(1)
    /\ threads[2].pc = "render"
    /\ threads[2].sp = 2

(***************************************************************************)
(* The writes to the output stream.                                        *)
(***************************************************************************)
\* loop thread t is at a statement that writes to the stream: the cursor
\* code of line 144, or the frame of line 149
LoopWriting(t) == threads[t].pc \in {"hide", "render"}

\* the main thread is at a statement of stop(), succeed() or fail() that
\* writes to the stream: the line clear, the cursor code or the status line
MethodWriting ==
    \/ At("stop", "clear")
    \/ At("stop", "show")
    \/ At("succeed", "status")
    \/ At("fail", "status")

\* the main thread is at a statement that writes to the stream, the print
\* calls of main() included
MainWriting ==
    \/ MethodWriting
    \/ pc \in {"prompt", "env", "parse", "check", "write"}

\* C17: the loop and the main thread are never both at a write to the
\* stream; a loop renders a frame only while it holds the render lock, the
\* main thread clears the line only while it holds it, and when the main
\* thread is at the line clear, the cursor code or the status line of
\* stop(), succeed() or fail(), no loop thread is alive at all.
C17_WritesExclusive ==
    /\ ~(MainWriting /\ \E t \in 1..Len(threads) : LoopWriting(t))
    /\ \A t \in 1..Len(threads) :
          threads[t].pc = "render" => spinners[threads[t].sp].render_lock = "loop"
    /\ At("stop", "clear") => spinners[Top.self].render_lock = "main"
    /\ MethodWriting => \A t \in 1..Len(threads) : ~IsAlive(t)

C17_Witness ==
    /\ pc = "succeed"
    /\ ncalls = 2
    /\ At("stop", "clear")
    /\ Len(threads) = 1
    /\ ~IsAlive(1)
    /\ term.last = "frame"
    /\ spinners[1].render_lock = "main"

(***************************************************************************)
(* Termination.                                                            *)
(***************************************************************************)
\* the main thread is inside stop()
InStop == stack # <<>> /\ Top.m = "stop"

\* C18: under fair scheduling every stop() returns, whether called directly
\* or by succeed() or fail(); a loop thread alive when stop() is entered
\* ends, so that the join completes: the loop's taking of the lock and the
\* join and lock of stop() never block each other for good.
C18_StopTerminates ==
    /\ InStop ~> ~InStop
    /\ (InStop /\ Alive # {}) ~> (InStop /\ Alive = {})

C18_Witness ==
    /\ pc = "stop"
    /\ ncalls = 2
    /\ stack = <<>>
    /\ Len(threads) = 1
    /\ ~IsAlive(1)
    /\ spinners[1].stop
    /\ term.last = "show"

\* the run can get through: a file is named, the key is set, the file is
\* there and parse_vtt_file has returned at least one cue
CanTranslate ==
    /\ pc = "check"
    /\ user_input # "exit"
    /\ has_key
    /\ file_exists
    /\ subtitles # <<>>

\* the run has ended with status 0 and the output file holds every cue
Completed ==
    /\ pc = "exited"
    /\ exit_status = "exit0"
    /\ Written
    /\ Len(translated_subtitles) = Len(subtitles)
    /\ WrittenCues = translated_subtitles

\* C19: with the key set, the file there and at least one cue parsed, and
\* every call returning or raising in the end, a fairly scheduled run ends
\* with status 0 and the output file written with all the cues, however
\* many of its batches failed.
C19_RunCompletes == CanTranslate ~> Completed

C19_Witness ==
    /\ Completed
    /\ Len(subtitles) = 11
    /\ Len(calls) = 2
    /\ calls[1].outcome = Raises
    /\ calls[2].outcome = Raises
    /\ translated_subtitles = subtitles

(***************************************************************************)
(* Writing and reading back.                                               *)
(***************************************************************************)
\* the cues write_vtt_file was given: the parsed ones when the parser and
\* the writer are run on their own, the translated ones in the pipeline
CuesWritten == IF pc = "rewritten" THEN subtitles ELSE translated_subtitles

====
